---- MODULE Spec2Model ----
(***************************************************************************)
(* A model of the DQN agent of src/agent.py: the replay buffer, the        *)
(* epsilon decay schedule, epsilon-greedy action selection and the target  *)
(* computation of the learning step.                                       *)
(*                                                                         *)
(* Arrays are functions over 0..n-1, as in the source.  Real numbers are   *)
(* exact rationals over a fixed denominator: a schedule value is its       *)
(* numerator over LinspaceDen(steps), a target its numerator over          *)
(* GammaDen, epsilon and the random draw numerators over EpsDen.           *)
(***************************************************************************)
EXTENDS Integers, Sequences, FiniteSets, TLC

VARIABLES
    \* ReplayBuffer (src/agent.py:22-54)
    buffer_ok,      \* ReplayBuffer.__init__ returned (FALSE: it raised)
    memory_size,
    obs_buf,
    next_obs_buf,
    rew_buf,
    act_buf,
    done_buf,
    idx,
    size,
    \* the calls made so far
    stored,         \* history: the transitions passed to store, in order
    ret,            \* the last call: its name, arguments, locals and return value
    raised,         \* the exception the last call raised, or "none"
    \* EpsilonDecaySchedule (src/agent.py:12-19)
    sched_args,     \* the (start, end, steps) given to __init__
    schedule,
    step,
    returned,       \* history: the values next_epsilon returned, in order
    \* DQNAgent (src/agent.py:57-114)
    Q,
    epsilon,
    gamma,
    batch_size,
    epsilon_min,
    epsilon_decay_steps,
    \* DQNAgent.learn (src/agent.py:116-165): where it is, and its locals
    pc,
    episodes,
    episode,
    cur_obs,        \* obs of learn
    next_obs,
    ep_done,        \* done of learn
    ep_len,         \* the environment: steps taken in the current episode
    log,            \* history: one entry for every environment step of learn
    saves,          \* history: the save calls of learn, in order
    \* checkpoints (src/agent.py:167-171)
    files,          \* the file system: what each path holds
    disk,           \* the file system: "ok", or "faulty" if writes can fail
    Q_other         \* the approximator of a second, freshly constructed agent

bufvars == <<buffer_ok, memory_size, obs_buf, next_obs_buf, rew_buf, act_buf,
             done_buf, idx, size>>
epsvars == <<sched_args, schedule, step, returned>>
agentvars == <<Q, epsilon, gamma, batch_size, epsilon_min, epsilon_decay_steps>>
learnvars == <<pc, episodes, episode, cur_obs, next_obs, ep_done, ep_len, log,
               saves>>
ckptvars == <<files, disk, Q_other>>
vars == <<bufvars, stored, ret, raised, epsvars, agentvars, learnvars,
          ckptvars>>

----------------------------------------------------------------------------
\* Bounds of the model.

MaxCap == 5         \* buffer capacities are -1..MaxCap
MaxStores == 7      \* store calls made on one buffer
MaxBatch == 2       \* batch sizes are 1..MaxBatch

Min(a, b) == IF a < b THEN a ELSE b

----------------------------------------------------------------------------
\* ReplayBuffer

\* np.zeros([n, ...]): an array of n zeros; a negative dimension raises.
zeros(n, z) == [i \in 0..(n - 1) |-> z]

\* Assignment into a uint8 / int16 array keeps the value modulo the width.
ToUint8(x) == x % 256
ToInt16(x) == ((x + 32768) % 65536) - 32768

\* The transition held at slot i of the five parallel arrays.
Slot(i) ==
    [obs |-> obs_buf[i], act |-> act_buf[i], rew |-> rew_buf[i],
     next_obs |-> next_obs_buf[i], done |-> done_buf[i]]

\* What store leaves in a slot for a transition t.
Converted(t) ==
    [obs |-> ToUint8(t.obs), act |-> ToUint8(t.act), rew |-> ToInt16(t.rew),
     next_obs |-> ToUint8(t.next_obs), done |-> t.done]

\* The content of a slot that np.zeros allocated and store never wrote.
ZeroSlot == [obs |-> 0, act |-> 0, rew |-> 0, next_obs |-> 0, done |-> FALSE]

\* The state ReplayBuffer(m) leaves.
ReplayBuffer_init(m) ==
    /\ buffer_ok = (m >= 0)
    /\ memory_size = m
    /\ obs_buf = zeros(m, 0)
    /\ next_obs_buf = zeros(m, 0)
    /\ rew_buf = zeros(m, 0)
    /\ act_buf = zeros(m, 0)
    /\ done_buf = zeros(m, FALSE)
    /\ idx = 0
    /\ size = 0

NextIdx_wide(i, m) == (i + 1) % (m + 1)
NextIdx_stuck(i, m) == IF i + 1 < m THEN i + 1 ELSE i
NextIdx(i, m) == (i + 1) % m

NextSize_unbounded(s, m) == s + 1
NextSize(s, m) == Min(s + 1, m)

store(transition) ==
    /\ buffer_ok
    /\ ret' = [op |-> "store"]
    /\ IF idx \in DOMAIN obs_buf
       THEN /\ obs_buf' = [obs_buf EXCEPT ![idx] = ToUint8(transition.obs)]
            /\ act_buf' = [act_buf EXCEPT ![idx] = ToUint8(transition.act)]
            /\ rew_buf' = [rew_buf EXCEPT ![idx] = ToInt16(transition.rew)]
            /\ next_obs_buf' =
                   [next_obs_buf EXCEPT ![idx] = ToUint8(transition.next_obs)]
            /\ done_buf' = [done_buf EXCEPT ![idx] = transition.done]
            /\ idx' = NextIdx(idx, memory_size)
            /\ size' = NextSize(size, memory_size)
            /\ stored' = Append(stored, transition)
            /\ raised' = "none"
            /\ UNCHANGED <<buffer_ok, memory_size>>
       ELSE /\ raised' = "IndexError"
            /\ UNCHANGED <<bufvars, stored>>

\* np.random.randint(low, high, n): n draws from [low, high); low >= high raises.
randint_inclusive(low, high) == low..high
randint(low, high) == low..(high - 1)

\* The ways sample(n) can end: the exception it raises and what it returns.
\* Indexing an array outside its bounds raises IndexError.
sample_outcomes(n) ==
    IF 0 < size
    THEN { IF \A i \in 1..n : idxs[i] \in DOMAIN obs_buf
           THEN [raised |-> "none", idxs |-> idxs,
                 batch |-> [i \in 1..n |-> Slot(idxs[i])]]
           ELSE [raised |-> "IndexError", idxs |-> <<>>, batch |-> <<>>] :
           idxs \in [1..n -> randint(0, size)] }
    ELSE { [raised |-> "ValueError", idxs |-> <<>>, batch |-> <<>>] }

sample_popping(n) ==
    /\ buffer_ok
    /\ UNCHANGED <<buffer_ok, memory_size, obs_buf, next_obs_buf, rew_buf,
                   act_buf, done_buf, idx, stored>>
    /\ size' = IF size > 0 THEN size - 1 ELSE size
    /\ \E r \in sample_outcomes(n) :
           /\ ret' = [op |-> "sample", batch_size |-> n, idxs |-> r.idxs,
                      batch |-> r.batch]
           /\ raised' = r.raised
sample(n) ==
    /\ buffer_ok
    /\ UNCHANGED <<bufvars, stored>>
    /\ \E r \in sample_outcomes(n) :
           /\ ret' = [op |-> "sample", batch_size |-> n, idxs |-> r.idxs,
                      batch |-> r.batch]
           /\ raised' = r.raised

----------------------------------------------------------------------------
\* The buffer on its own: a caller that stores tagged transitions and samples.

\* The k-th transition stored (k = 0, 1, ...) is tagged k in obs; next_obs is
\* k + 1, so no stored transition equals a slot that was never written.
Tagged(k) ==
    [obs |-> k, act |-> k % 2, rew |-> (k % 3) - 1, next_obs |-> k + 1,
     done |-> (k % 2 = 1)]

NoAgent ==
    /\ Q = <<>>
    /\ epsilon = 0
    /\ gamma = 0
    /\ batch_size = 0
    /\ epsilon_min = 0
    /\ epsilon_decay_steps = 0

\* The two checkpoint paths of learn: model_params/<env-name>.params.tmp and
\* model_params/<env-name>.params.
Paths == {"params.tmp", "params"}

\* What a path holds: nothing, a file cut short, or a whole state dict.
NoFile == [state |-> "absent", data |-> <<>>]

NoFiles ==
    /\ files = [p \in Paths |-> NoFile]
    /\ disk = "ok"
    /\ Q_other = <<>>

NoLearn ==
    /\ pc = "none"
    /\ episodes = 0
    /\ episode = 0
    /\ cur_obs = 0
    /\ next_obs = 0
    /\ ep_done = FALSE
    /\ ep_len = 0
    /\ log = <<>>
    /\ saves = <<>>

NoSchedule ==
    /\ sched_args = <<>>
    /\ schedule = <<>>
    /\ step = 0
    /\ returned = <<>>

InitBuffer ==
    /\ \E m \in -1..MaxCap : ReplayBuffer_init(m)
    /\ stored = <<>>
    /\ ret = [op |-> "init"]
    /\ raised = IF buffer_ok THEN "none" ELSE "ValueError"
    /\ NoSchedule
    /\ NoAgent
    /\ NoLearn
    /\ NoFiles

Store ==
    /\ Len(stored) < MaxStores
    /\ store(Tagged(Len(stored)))
    /\ UNCHANGED <<epsvars, agentvars, learnvars, ckptvars>>

Sample ==
    /\ \E n \in 1..MaxBatch : sample(n)
    /\ UNCHANGED <<epsvars, agentvars, learnvars, ckptvars>>

NextBuffer == Store \/ Sample

SpecBuffer == InitBuffer /\ [][NextBuffer]_vars

----------------------------------------------------------------------------
\* Properties of the buffer (SpecBuffer).

\* The slots that hold data, and the stored transitions still retained: the
\* last Min(n, capacity) of the n stored.
Slots == { Slot(i) : i \in DOMAIN obs_buf }
Retained ==
    { Converted(stored[k]) :
      k \in (Len(stored) - Min(Len(stored), memory_size) + 1)..Len(stored) }

\* C1: ring overwrite.  For every capacity C >= 1, after n > C stores size is C
\* and the C slots hold exactly the C most recently stored transitions, each
\* exactly once, and none of the n - C older ones.
C1_RingOverwrite ==
    (buffer_ok /\ memory_size >= 1 /\ Len(stored) > memory_size) =>
        /\ size = memory_size
        /\ Slots = Retained
        /\ Cardinality(Slots) = memory_size
        /\ \A k \in 1..(Len(stored) - memory_size) :
               Converted(stored[k]) \notin Slots

\* Capacity 5 and stores tagged 0..6 leave the tags {2,3,4,5,6}.
C1_Witness ==
    /\ buffer_ok /\ memory_size = 5 /\ Len(stored) = 7 /\ size = 5
    /\ { obs_buf[i] : i \in DOMAIN obs_buf } = {2, 3, 4, 5, 6}

\* C2: for every capacity C >= 1 and n <= C stores, size is n and positions
\* [0, n) hold the n stored transitions in insertion order; and 0 <= size <=
\* capacity in every reachable state.
C2_FillInOrder ==
    buffer_ok =>
        /\ 0 <= size /\ size <= memory_size
        /\ (memory_size >= 1 /\ Len(stored) <= memory_size) =>
               /\ size = Len(stored)
               /\ \A i \in 0..(Len(stored) - 1) :
                      Slot(i) = Converted(stored[i + 1])

C2_Witness ==
    /\ buffer_ok /\ memory_size = 3 /\ Len(stored) = 3 /\ size = 3
    /\ \A i \in 0..2 : obs_buf[i] = i

\* C3: whenever size >= 1, sample(batch_size) returns batch_size transitions,
\* every index drawn is in [0, size), every transition returned is one that
\* was stored and is still retained, never a slot that was not written, and
\* with size 1 every index is 0.
C3_SampleWithinFill ==
    (buffer_ok /\ ret.op = "sample" /\ size >= 1) =>
        /\ raised = "none"
        /\ Len(ret.idxs) = ret.batch_size
        /\ Len(ret.batch) = ret.batch_size
        /\ \A i \in 1..ret.batch_size :
               /\ ret.idxs[i] \in 0..(size - 1)
               /\ ret.batch[i] = Slot(ret.idxs[i])
               /\ ret.batch[i] \in Retained
               /\ ret.batch[i] # ZeroSlot
               /\ (size = 1 => ret.idxs[i] = 0)

\* A sample of two from a buffer that is filled to 2 of its 3 slots.
C3_Witness ==
    /\ buffer_ok /\ ret.op = "sample" /\ raised = "none"
    /\ memory_size = 3 /\ size = 2
    /\ ret.batch_size = 2 /\ ret.idxs = <<1, 0>>

\* C9: a buffer capacity of 0 or less is rejected at construction, so that no
\* buffer of capacity <= 0 exists on which a later store or sample fails.
C9_NonPositiveCapacityRejected ==
    ~(buffer_ok /\ memory_size <= 0 /\ ret.op # "init" /\ raised # "none")

\* C10: sample(batch_size) with batch_size above the current fill, a fill of 0
\* included, raises and returns no batch, and leaves the buffer as it was.
C10_SampleAboveFillRaises ==
    (buffer_ok /\ ret.op = "sample" /\ ret.batch_size > size) =>
        (raised # "none" /\ ret.batch = <<>>)

----------------------------------------------------------------------------
\* EpsilonDecaySchedule

MaxEps == 3         \* start and end are 0..MaxEps
MaxSteps == 4       \* steps is 0..MaxSteps
MaxCalls == 6       \* next_epsilon calls made on one schedule

\* np.linspace(start, stop, num): num evenly spaced values from start to stop,
\* both included; the one value start when num is 1; empty when num is 0.
\* The values are numerators over LinspaceDen(num).
LinspaceDen(num) == IF num > 1 THEN num - 1 ELSE 1

linspace_swapped(start, stop, num) ==
    [i \in 0..(num - 1) |-> stop * LinspaceDen(num) + i * (start - stop)]
linspace(start, stop, num) ==
    [i \in 0..(num - 1) |-> start * LinspaceDen(num) + i * (stop - start)]

\* The state EpsilonDecaySchedule(start, end, steps) leaves.
EpsilonDecaySchedule_init(start, end, steps) ==
    /\ sched_args = [start |-> start, end |-> end, steps |-> steps]
    /\ step = 0
    /\ schedule = linspace(start, end, steps)
    /\ returned = <<>>

StepAfter_twice(s) == s + 2
StepAfter(s) == s + 1

ClampedIndex_len(s, n) == Min(s, n)
ClampedIndex_before(s, n) == Min(s - 1, n - 1)
ClampedIndex(s, n) == Min(s, n - 1)

\* a[i] of Python: a negative i counts from the end.
PyIndex(i, n) == IF i < 0 THEN i + n ELSE i

next_epsilon ==
    /\ step' = StepAfter(step)
    /\ LET n == Cardinality(DOMAIN schedule)
           i == PyIndex(ClampedIndex(step', n), n)
       IN  IF i \in DOMAIN schedule
           THEN /\ ret' = [op |-> "next_epsilon", index |-> i,
                            value |-> schedule[i]]
                /\ returned' = Append(returned, schedule[i])
                /\ raised' = "none"
           ELSE /\ ret' = [op |-> "next_epsilon"]
                /\ returned' = returned
                /\ raised' = "IndexError"
    /\ UNCHANGED <<sched_args, schedule>>

\* The schedule on its own: a caller that calls next_epsilon again and again.
NoBuffer ==
    /\ buffer_ok = FALSE
    /\ memory_size = 0
    /\ obs_buf = <<>>
    /\ next_obs_buf = <<>>
    /\ rew_buf = <<>>
    /\ act_buf = <<>>
    /\ done_buf = <<>>
    /\ idx = 0
    /\ size = 0
    /\ stored = <<>>

InitEps ==
    /\ \E start \in 0..MaxEps, end \in 0..MaxEps, steps \in 0..MaxSteps :
           EpsilonDecaySchedule_init(start, end, steps)
    /\ ret = [op |-> "init"]
    /\ raised = "none"
    /\ NoBuffer
    /\ NoAgent
    /\ NoLearn
    /\ NoFiles

NextEpsilon ==
    /\ step < MaxCalls
    /\ next_epsilon
    /\ UNCHANGED <<bufvars, stored, agentvars, learnvars, ckptvars>>

NextEps == NextEpsilon

SpecEps == InitEps /\ [][NextEps]_vars

----------------------------------------------------------------------------
\* Properties of the schedule (SpecEps).  A returned value v is the rational
\* v / EpsDenOfRun; start and end are compared as their numerators.

EpsDenOfRun == LinspaceDen(sched_args.steps)
StartNum == sched_args.start * EpsDenOfRun
EndNum == sched_args.end * EpsDenOfRun

NonIncreasing(seq) ==
    \A i \in 1..Len(seq) : \A j \in i..Len(seq) : seq[j] <= seq[i]

\* C4 as stated: for start >= end and any steps >= 1, the values returned are
\* non-increasing, and every call after the first `steps` calls returns end.
C4_AnySteps ==
    (sched_args.steps >= 1 /\ sched_args.start >= sched_args.end) =>
        /\ NonIncreasing(returned)
        /\ \A k \in 1..Len(returned) :
               k > sched_args.steps => returned[k] = EndNum

\* C4, amended: for start >= end and steps >= 1 the values returned are
\* non-increasing; for steps >= 2 every call after the first `steps` calls
\* returns exactly end.  (With steps = 1 the schedule is the single value
\* start, which every call returns.)
C4_Amended ==
    (sched_args.steps >= 1 /\ sched_args.start >= sched_args.end) =>
        /\ NonIncreasing(returned)
        /\ sched_args.steps >= 2 =>
               \A k \in 1..Len(returned) :
                   k > sched_args.steps => returned[k] = EndNum
        /\ sched_args.steps = 1 =>
               \A k \in 1..Len(returned) : returned[k] = StartNum

\* Schedule 1, 2/3, 1/3, 0 (in thirds: 9, 6, 3, 0): six calls.
C4_Witness ==
    /\ sched_args = [start |-> 3, end |-> 0, steps |-> 4]
    /\ returned = <<6, 3, 0, 0, 0, 0>>

\* C5 as stated: the k-th call returns the value at index min(k, steps - 1) of
\* the steps evenly spaced values from start to end; the first call returns
\* the second of them, never start: with start > end it is below start, and
\* for steps > 2 above end.
C5_FirstIsSecond ==
    sched_args.steps >= 1 =>
        /\ \A k \in 1..Len(returned) :
               returned[k] = StartNum + Min(k, sched_args.steps - 1)
                                        * (sched_args.end - sched_args.start)
        /\ (Len(returned) >= 1 /\ sched_args.start > sched_args.end) =>
               /\ returned[1] < StartNum
               /\ sched_args.steps > 2 => returned[1] > EndNum

\* C5, amended: the k-th call returns the value at index min(k, steps - 1);
\* for steps >= 2 the first call returns the second value, which with
\* start > end is below start and for steps > 2 above end.  (With steps = 1
\* the first call returns start.)
C5_Amended ==
    sched_args.steps >= 1 =>
        /\ \A k \in 1..Len(returned) :
               returned[k] = StartNum + Min(k, sched_args.steps - 1)
                                        * (sched_args.end - sched_args.start)
        /\ (Len(returned) >= 1 /\ sched_args.steps >= 2) =>
               /\ returned[1] = schedule[1]
               /\ sched_args.start > sched_args.end =>
                      /\ returned[1] < StartNum
                      /\ sched_args.steps > 2 => returned[1] > EndNum
        /\ (Len(returned) >= 1 /\ sched_args.steps = 1) =>
               returned[1] = StartNum

\* Schedule 1, 1/2, 0 (in halves: 2, 1, 0): the first call returns 1/2.
C5_Witness ==
    /\ sched_args = [start |-> 1, end |-> 0, steps |-> 3]
    /\ returned = <<1>>
    /\ step = 1

----------------------------------------------------------------------------
\* DQNAgent: get_action and replay

AgentCap == 2           \* memory_size of the agent's buffer
AgentBatch == 2         \* batch_size of the agent
MaxAgentStores == 2     \* transitions stored in the agent's buffer
EpsDen == 2             \* epsilon and the random draw are k / EpsDen
GammaDen == 100         \* gamma is k / GammaDen; so is a target

Obs == {0, 1}           \* the observations the environment produces
Actions == {0, 1}       \* the action space
QVals == {0, 2}         \* the values the approximator predicts
Gammas == {50, 99}      \* gamma: 0.50 and 0.99

\* The approximator: for every observation, one value per action
\* (DQN.forward).  Its parameters are the table itself.
QTables == [Obs -> [Actions -> QVals]]

\* The parameters training moves among: action 1 is valued 0 at observation
\* 0 and 2 at observation 1, action 0 at any value.
QSpace == { q \in QTables : q[0][1] = 0 /\ q[1][1] = 2 }

\* The agent's epsilon is k / EpsUnits: fine enough to hold every value of the
\* schedule that learn builds over epsilon_decay_steps values.
EpsUnits == EpsDen * LinspaceDen(epsilon_decay_steps)

\* The state DQNAgent(env, epsilon=e, epsilon_min=emin,
\* epsilon_decay_steps=dsteps, memory_size=m, gamma=g, batch_size=b) leaves,
\* q the parameters DQN(k, num_actions) starts with; e and emin are k / EpsDen.
DQNAgent_init(q, e, emin, dsteps, m, g, b) ==
    /\ Q = q
    /\ epsilon = e * LinspaceDen(dsteps)
    /\ epsilon_min = emin
    /\ epsilon_decay_steps = dsteps
    /\ ReplayBuffer_init(m)
    /\ gamma = g
    /\ batch_size = b

MaxOf(S) == CHOOSE x \in S : \A y \in S : y <= x

\* torch.argmax: the index of the first maximal value.
argmax_last(v) ==
    CHOOSE a \in DOMAIN v :
        /\ \A b \in DOMAIN v : v[b] <= v[a]
        /\ \A b \in DOMAIN v : b > a => v[b] < v[a]
argmax(v) ==
    CHOOSE a \in DOMAIN v :
        /\ \A b \in DOMAIN v : v[b] <= v[a]
        /\ \A b \in DOMAIN v : b < a => v[b] < v[a]

\* np.random.random() < self.epsilon, the draw u in [0, 1).
Explore_le(u, e) == u <= e
Explore(u, e) == u < e

get_action(obs) ==
    /\ \E u \in 0..(EpsUnits - 1) :
           IF Explore(u, epsilon)
           THEN \E a \in Actions :
                    ret' = [op |-> "get_action", obs |-> obs, u |-> u,
                            branch |-> "explore", action |-> a]
           ELSE LET q_values == Q[obs]
                IN  ret' = [op |-> "get_action", obs |-> obs, u |-> u,
                            branch |-> "exploit", action |-> argmax(q_values)]
    /\ raised' = "none"
    /\ UNCHANGED <<bufvars, stored, agentvars>>

\* next_q_values.max(dim=1)[0]: the maximum of row i.
RowMax_batch(m, i) == MaxOf({ m[j][a] : j \in DOMAIN m, a \in Actions })
RowMax(m, i) == MaxOf({ m[i][a] : a \in Actions })

\* reward + gamma * max_next_q * (~done).float(), over GammaDen.
Target_unmasked(rew, g, maxq, done) == rew * GammaDen + g * maxq
Target(rew, g, maxq, done) ==
    rew * GammaDen + g * maxq * (IF done THEN 0 ELSE 1)

Abs(x) == IF x < 0 THEN -x ELSE x

RECURSIVE SumAbsDiff(_, _, _)
SumAbsDiff(q, t, n) ==
    IF n = 0 THEN 0
    ELSE Abs(q[n] * GammaDen - t[n]) + SumAbsDiff(q, t, n - 1)

\* nn.L1Loss: the mean absolute difference, over GammaDen * n.
L1Loss(q, t) == SumAbsDiff(q, t, Len(t))

replay ==
    /\ buffer_ok
    /\ UNCHANGED <<bufvars, stored, epsilon, gamma, batch_size, epsilon_min,
                   epsilon_decay_steps>>
    /\ \E r \in sample_outcomes(batch_size) :
           IF r.raised # "none"
           THEN /\ raised' = r.raised
                /\ ret' = [op |-> "replay"]
                /\ Q' = Q
           ELSE LET n == batch_size
                    q_values ==
                        [i \in 1..n |-> Q[r.batch[i].obs][r.batch[i].act]]
                    next_q_values == [i \in 1..n |-> Q[r.batch[i].next_obs]]
                    max_next_q_values ==
                        [i \in 1..n |-> RowMax(next_q_values, i)]
                    targets ==
                        [i \in 1..n |->
                            Target(r.batch[i].rew, gamma,
                                   max_next_q_values[i], r.batch[i].done)]
                IN  /\ raised' = "none"
                    /\ ret' = [op |-> "replay", idxs |-> r.idxs,
                               batch |-> r.batch, Q |-> Q,
                               q_values |-> q_values,
                               next_q_values |-> next_q_values,
                               max_next_q_values |-> max_next_q_values,
                               targets |-> targets,
                               loss |-> L1Loss(q_values, targets)]
                    \* optimizer.step(): new parameters
                    /\ Q' \in QSpace

\* Action selection on its own: an agent of any epsilon and any approximator
\* that is asked for actions.
InitAct ==
    /\ \E q \in QTables, e \in 0..EpsDen :
           DQNAgent_init(q, e, 0, 1, AgentCap, 99, AgentBatch)
    /\ stored = <<>>
    /\ ret = [op |-> "init"]
    /\ raised = "none"
    /\ NoSchedule
    /\ NoLearn
    /\ NoFiles

GetAction ==
    /\ \E obs \in Obs : get_action(obs)
    /\ UNCHANGED <<epsvars, learnvars, ckptvars>>

NextAct == GetAction

SpecAct == InitAct /\ [][NextAct]_vars

\* The learning step on its own: an agent of any gamma and any approximator
\* whose caller stores transitions of the environment and runs learning steps.
AgentInputs ==
    { [obs |-> 0, act |-> 0, rew |-> 1, next_obs |-> 0, done |-> FALSE],
      [obs |-> 0, act |-> 1, rew |-> 1, next_obs |-> 1, done |-> FALSE],
      [obs |-> 1, act |-> 0, rew |-> -1, next_obs |-> 1, done |-> TRUE] }

InitReplay ==
    /\ \E q \in QSpace, g \in Gammas :
           DQNAgent_init(q, EpsDen, 0, 1, AgentCap, g, AgentBatch)
    /\ stored = <<>>
    /\ ret = [op |-> "init"]
    /\ raised = "none"
    /\ NoSchedule
    /\ NoLearn
    /\ NoFiles

AgentStore ==
    /\ Len(stored) < MaxAgentStores
    /\ \E t \in AgentInputs : store(t)
    /\ UNCHANGED <<epsvars, agentvars, learnvars, ckptvars>>

Replay ==
    /\ replay
    /\ UNCHANGED <<epsvars, learnvars, ckptvars>>

NextReplay == AgentStore \/ Replay

SpecReplay == InitReplay /\ [][NextReplay]_vars

----------------------------------------------------------------------------
\* Properties of the learning step (SpecReplay).  A target t is the rational
\* t / GammaDen.

\* C6: in a learning step, the target of every sampled transition with done
\* set is exactly its reward, whatever gamma and whatever the approximator
\* predicts for its next observation.
C6_TerminalTarget ==
    (ret.op = "replay" /\ raised = "none") =>
        \A i \in 1..batch_size :
            ret.batch[i].done =>
                ret.targets[i] = ret.batch[i].rew * GammaDen

\* A terminal transition whose next observation the approximator values at 2.
C6_Witness ==
    /\ ret.op = "replay" /\ raised = "none" /\ gamma = 99
    /\ \E i \in 1..batch_size :
           /\ ret.batch[i].done
           /\ ret.Q[ret.batch[i].next_obs][1] = 2
           /\ ret.targets[i] = -100

\* C7: in a learning step, the target of every sampled transition with done
\* not set is reward + gamma * m, m the greatest value the approximator
\* predicts, over the actions, for that transition's own next observation.
C7_BootstrapTarget ==
    (ret.op = "replay" /\ raised = "none") =>
        \A i \in 1..batch_size :
            ~ret.batch[i].done =>
                \E a \in Actions :
                    /\ \A b \in Actions :
                           ret.Q[ret.batch[i].next_obs][b]
                               <= ret.Q[ret.batch[i].next_obs][a]
                    /\ ret.targets[i] =
                           ret.batch[i].rew * GammaDen
                               + gamma * ret.Q[ret.batch[i].next_obs][a]

\* gamma 0.99, reward 1 and a greatest next value of 2 give 2.98, beside a
\* transition of the same batch whose own greatest next value is 0.
C7_Witness ==
    /\ ret.op = "replay" /\ raised = "none" /\ gamma = 99
    /\ ~ret.batch[1].done /\ ~ret.batch[2].done
    /\ ret.batch[1].rew = 1 /\ ret.batch[2].rew = 1
    /\ ret.max_next_q_values = <<0, 2>>
    /\ ret.targets = <<100, 298>>

----------------------------------------------------------------------------
\* Properties of action selection (SpecAct).

\* C8: with epsilon 0, get_action never explores, and the action it returns
\* is the first index at which the approximator's prediction for the
\* observation is greatest; being determined by the approximator and the
\* observation, it is the same in any two calls.
C8_GreedyDeterministic ==
    (ret.op = "get_action" /\ epsilon = 0) =>
        /\ ret.branch = "exploit"
        /\ ret.action \in Actions
        /\ \A b \in Actions : Q[ret.obs][b] <= Q[ret.obs][ret.action]
        /\ \A b \in Actions :
               b < ret.action => Q[ret.obs][b] < Q[ret.obs][ret.action]

\* A tie between the two actions, resolved to action 0, on a draw of 0.
C8_Witness ==
    /\ ret.op = "get_action" /\ epsilon = 0 /\ ret.u = 0
    /\ Q[ret.obs][0] = 2 /\ Q[ret.obs][1] = 2
    /\ ret.action = 0


----------------------------------------------------------------------------
\* More properties of the buffer (SpecBuffer) and of the schedule (SpecEps).

\* C18: after n stores into a buffer of capacity C >= 1, idx is n mod C; so
\* idx equals size while size < C, and once the buffer is full idx is the
\* slot of the oldest retained transition, the one the next store overwrites.
C18_IdxIsCountModCapacity ==
    (buffer_ok /\ memory_size >= 1) =>
        /\ idx = Len(stored) % memory_size
        /\ size < memory_size => idx = size
        /\ size = memory_size =>
               Slot(idx) = Converted(stored[Len(stored) - memory_size + 1])

\* Capacity 3 after 5 stores: idx is 2, the slot of the transition tagged 2.
C18_Witness ==
    /\ buffer_ok /\ memory_size = 3 /\ Len(stored) = 5
    /\ idx = 2 /\ size = 3 /\ obs_buf[idx] = 2

\* C15 as stated: the step counter of the schedule stays within
\* [0, decay_steps - 1], however many times next_epsilon is called.
C15_CounterClamped ==
    sched_args.steps >= 1 => (0 <= step /\ step <= sched_args.steps - 1)

\* C15, amended: the index at which next_epsilon reads the schedule,
\* min(step, decay_steps - 1), stays within [0, decay_steps - 1] however many
\* calls are made; the step counter itself is the number of calls made.
C15_IndexClamped ==
    sched_args.steps >= 1 =>
        /\ step = Len(returned)
        /\ ret.op = "next_epsilon" =>
               /\ raised = "none"
               /\ ret.index = Min(step, sched_args.steps - 1)
               /\ 0 <= ret.index /\ ret.index <= sched_args.steps - 1

\* Six calls on a schedule of three values: the counter is 6, the index 2.
C15_Witness ==
    /\ sched_args = [start |-> 2, end |-> 0, steps |-> 3]
    /\ step = 6 /\ ret.op = "next_epsilon" /\ ret.index = 2 /\ ret.value = 0

----------------------------------------------------------------------------
\* The operations of the agent together: a caller that stores transitions,
\* samples, asks for actions and runs learning steps, in any order.

InitOps ==
    /\ \E q \in QSpace : DQNAgent_init(q, 1, 0, 1, AgentCap, 99, AgentBatch)
    /\ stored = <<>>
    /\ ret = [op |-> "init"]
    /\ raised = "none"
    /\ NoSchedule
    /\ NoLearn
    /\ NoFiles

NextOps == AgentStore \/ Sample \/ GetAction \/ Replay

SpecOps == InitOps /\ [][NextOps]_vars

\* C16: the buffer is changed by store alone.  sample, get_action and replay
\* leave idx, size and the five arrays as they were; a store writes the
\* transition at the slot idx had before the call, advances idx and counts
\* size up to the capacity, and leaves every other slot as it was.
C16_OnlyStoreMutates ==
    [][ /\ ret'.op \in {"sample", "get_action", "replay"} => UNCHANGED bufvars
        /\ ret'.op = "store" =>
               /\ UNCHANGED <<buffer_ok, memory_size>>
               /\ DOMAIN obs_buf' = DOMAIN obs_buf
               /\ \A i \in DOMAIN obs_buf :
                      i # idx =>
                          /\ obs_buf'[i] = obs_buf[i]
                          /\ act_buf'[i] = act_buf[i]
                          /\ rew_buf'[i] = rew_buf[i]
                          /\ next_obs_buf'[i] = next_obs_buf[i]
                          /\ done_buf'[i] = done_buf[i]
               /\ raised' = "none" =>
                      /\ obs_buf'[idx] = ToUint8(stored'[Len(stored')].obs)
                      /\ done_buf'[idx] = stored'[Len(stored')].done
                      /\ idx' = (idx + 1) % memory_size
                      /\ size' = Min(size + 1, memory_size)
      ]_vars

\* A learning step on a buffer whose two slots have both been written.
C16_Witness ==
    /\ ret.op = "replay" /\ raised = "none"
    /\ size = 2 /\ idx = 0 /\ Len(stored) = 2
    /\ next_obs_buf[0] = 0 /\ next_obs_buf[1] = 1

----------------------------------------------------------------------------
\* Checkpoints: DQNAgent.save and DQNAgent.load

\* Module.state_dict(): the parameters by name, here by (observation, action);
\* Module.load_state_dict(sd): the parameters set from such a mapping.
state_dict(q) == [k \in Obs \X Actions |-> q[k[1]][k[2]]]

load_state_dict_transposed(sd) ==
    [o \in Obs |-> [a \in Actions |-> sd[<<a, o>>]]]
load_state_dict(sd) == [o \in Obs |-> [a \in Actions |-> sd[<<o, a>>]]]

\* torch.save(obj, path) opens path for writing and writes obj to it.  An
\* I/O error at the open leaves the path as it was; one during the write
\* leaves the file cut short.
save_outcomes(path) ==
    { [raised |-> "none",
       file |-> [state |-> "complete", data |-> state_dict(Q)]] }
    \cup
    ( IF disk = "faulty"
      THEN { [raised |-> "OSError", file |-> files[path]],
             [raised |-> "OSError", file |-> [state |-> "partial", data |-> <<>>]] }
      ELSE {} )

save(path) ==
    \E r \in save_outcomes(path) :
        /\ files' = [files EXCEPT ![path] = r.file]
        /\ ret' = [op |-> "save", path |-> path]
        /\ raised' = r.raised
        /\ UNCHANGED <<disk, Q_other>>

\* load(path), called on the second agent: torch.load raises on a missing
\* file and on one that is cut short.
load(path) ==
    /\ ret' = [op |-> "load", path |-> path]
    /\ UNCHANGED <<files, disk>>
    /\ IF files[path].state = "complete"
       THEN /\ Q_other' = load_state_dict(files[path].data)
            /\ raised' = "none"
       ELSE /\ Q_other' = Q_other
            /\ raised' = IF files[path].state = "absent"
                         THEN "FileNotFoundError" ELSE "RuntimeError"

\* Checkpoints on their own: one agent that saves, a freshly constructed one
\* that loads, on a file system that may or may not fail.
InitCkpt ==
    /\ \E q \in QTables : DQNAgent_init(q, EpsDen, 0, 1, AgentCap, 99, AgentBatch)
    /\ Q_other \in QSpace
    /\ files = [p \in Paths |-> NoFile]
    /\ disk \in {"ok", "faulty"}
    /\ stored = <<>>
    /\ ret = [op |-> "init"]
    /\ raised = "none"
    /\ NoSchedule
    /\ NoLearn

Save ==
    /\ \E p \in Paths : save(p)
    /\ UNCHANGED <<bufvars, stored, epsvars, agentvars, learnvars>>

Load ==
    /\ \E p \in Paths : load(p)
    /\ UNCHANGED <<bufvars, stored, epsvars, agentvars, learnvars>>

NextCkpt == Save \/ Load

SpecCkpt == InitCkpt /\ [][NextCkpt]_vars

\* C11: a save that an I/O error interrupts leaves no file cut short at the
\* final path, which holds a whole parameter set or nothing; what is cut
\* short is at the .tmp path only, and a .tmp file is never loaded as a
\* checkpoint.
C11_NoPartialFinalCheckpoint ==
    /\ files["params"].state # "partial"
    /\ ~(ret.op = "load" /\ ret.path = "params.tmp" /\ raised = "none")

----------------------------------------------------------------------------
\* DQNAgent.learn

\* The constants of learn, scaled down: the buffer fill from which learn runs
\* learning steps (50000 in the source) and the number of episodes between
\* two temporary checkpoints (25 in the source).
LearnThreshold == 2
CheckpointEvery == 2

MaxEpisodes == 2        \* learn is called with episodes in 0..MaxEpisodes
MaxEpLen == 2           \* the environment truncates an episode at this length

\* range(1, episodes + 1) has an element after ep.
MoreEpisodes_short(ep, n) == ep + 1 < n
MoreEpisodes(ep, n) == ep < n

\* self.memory.size >= 50000
ShouldLearn_always(sz) == TRUE
ShouldLearn_late(sz) == sz > LearnThreshold
ShouldLearn(sz) == sz >= LearnThreshold

\* episode % 25 == 0
IsCheckpointEpisode_first(ep) == ep % CheckpointEvery = 1
IsCheckpointEpisode(ep) == ep % CheckpointEvery = 0

\* The last entry of the log, with some fields replaced.
LastLog == log[Len(log)]
SetLast(e) == [log EXCEPT ![Len(log)] = e]

\* for episode in range(1, episodes + 1): obs, _ = self.env.reset()
EpisodeReset ==
    /\ pc = "for"
    /\ MoreEpisodes(episode, episodes)
    /\ episode' = episode + 1
    /\ cur_obs' = 0
    /\ ep_done' = FALSE
    /\ ep_len' = 0
    /\ pc' = "while"
    /\ UNCHANGED <<bufvars, stored, ret, raised, epsvars, agentvars, episodes,
                   next_obs, log, saves, ckptvars>>

\* while not done: action = self.get_action(obs[np.newaxis])
StepAct ==
    /\ pc = "while"
    /\ ~ep_done
    /\ get_action(cur_obs)
    /\ log' = Append(log, [episode |-> episode, epsilon |-> epsilon,
                           done |-> FALSE, size |-> size, checked |-> FALSE,
                           replays |-> 0, fill |-> 0])
    /\ pc' = "step"
    /\ UNCHANGED <<epsvars, episodes, episode, cur_obs, next_obs, ep_done,
                   ep_len, saves, ckptvars>>

\* next_obs, reward, terminated, truncated, info = self.env.step(action);
\* done = terminated or truncated; self.memory.store([...]).
\* The environment shows observation n % 2 after n steps of an episode,
\* rewards 1, may terminate at any step and truncates at MaxEpLen steps.
StepStore ==
    /\ pc = "step"
    /\ \E terminated \in BOOLEAN :
           LET truncated == ep_len + 1 >= MaxEpLen
               o == (ep_len + 1) % 2
               d == terminated \/ truncated
           IN  /\ next_obs' = o
               /\ ep_done' = d
               /\ ep_len' = ep_len + 1
               /\ store([obs |-> cur_obs, act |-> ret.action, rew |-> 1,
                         next_obs |-> o, done |-> d])
               /\ log' = SetLast([LastLog EXCEPT !.done = d, !.size = size'])
    /\ pc' = IF raised' = "none" THEN "learn" ELSE "raised"
    /\ UNCHANGED <<epsvars, agentvars, episodes, episode, cur_obs, saves,
                   ckptvars>>

\* if self.memory.size >= 50000: self.replay()
StepReplay ==
    /\ pc = "learn"
    /\ ShouldLearn(size)
    /\ replay
    /\ log' = SetLast([LastLog EXCEPT !.checked = TRUE,
                                      !.replays = LastLog.replays + 1,
                                      !.fill = size])
    /\ pc' = IF raised' = "none" THEN "eps" ELSE "raised"
    /\ UNCHANGED <<epsvars, episodes, episode, cur_obs, next_obs, ep_done,
                   ep_len, saves, ckptvars>>

StepNoReplay ==
    /\ pc = "learn"
    /\ ~ShouldLearn(size)
    /\ log' = SetLast([LastLog EXCEPT !.checked = TRUE])
    /\ pc' = "eps"
    /\ UNCHANGED <<bufvars, stored, ret, raised, epsvars, agentvars, episodes,
                   episode, cur_obs, next_obs, ep_done, ep_len, saves, ckptvars>>

\* obs = next_obs; self.epsilon = epsilon_schedule.next_epsilon()
StepEpsilon ==
    /\ pc = "eps"
    /\ cur_obs' = next_obs
    /\ next_epsilon
    /\ epsilon' = IF raised' = "none" THEN ret'.value ELSE epsilon
    /\ pc' = IF raised' = "none" THEN "while" ELSE "raised"
    /\ UNCHANGED <<bufvars, stored, Q, gamma, batch_size, epsilon_min,
                   epsilon_decay_steps, episodes, episode, next_obs, ep_done,
                   ep_len, log, saves, ckptvars>>

\* The end of an episode: if episode % 25 == 0, save to the .tmp path.
EpisodeCheckpoint ==
    /\ pc = "while"
    /\ ep_done
    /\ IsCheckpointEpisode(episode)
    /\ save("params.tmp")
    /\ saves' = Append(saves, [path |-> "params.tmp", episode |-> episode])
    /\ pc' = IF raised' = "none" THEN "for" ELSE "raised"
    /\ UNCHANGED <<bufvars, stored, epsvars, agentvars, episodes, episode,
                   cur_obs, next_obs, ep_done, ep_len, log>>

EpisodeNoCheckpoint ==
    /\ pc = "while"
    /\ ep_done
    /\ ~IsCheckpointEpisode(episode)
    /\ pc' = "for"
    /\ UNCHANGED <<bufvars, stored, ret, raised, epsvars, agentvars, episodes,
                   episode, cur_obs, next_obs, ep_done, ep_len, log, saves,
                   ckptvars>>

\* After the last episode: save to the final path, and return.
LearnFinish ==
    /\ pc = "for"
    /\ ~MoreEpisodes(episode, episodes)
    /\ save("params")
    /\ saves' = Append(saves, [path |-> "params", episode |-> episode])
    /\ pc' = IF raised' = "none" THEN "returned" ELSE "raised"
    /\ UNCHANGED <<bufvars, stored, epsvars, agentvars, episodes, episode,
                   cur_obs, next_obs, ep_done, ep_len, log>>

\* The agents learn is run on: memory_size m, batch_size b and
\* epsilon_decay_steps d; epsilon runs from 1 to 0, gamma is 0.99.
LearnConfigs ==
    { [m |-> 1, b |-> 1, d |-> 1],
      [m |-> 2, b |-> 3, d |-> 2],
      [m |-> 3, b |-> 1, d |-> 3] }

\* The state in which learn(n) enters its loop: the agent constructed, and
\* the schedule built from the agent's epsilon, epsilon_min and
\* epsilon_decay_steps.
InitLearn ==
    /\ \E c \in LearnConfigs, n \in 0..MaxEpisodes :
           /\ DQNAgent_init([o \in Obs |-> [a \in Actions |-> o * 2 * a]],
                            EpsDen, 0, c.d, c.m, 99, c.b)
           /\ EpsilonDecaySchedule_init(EpsDen, 0, c.d)
           /\ episodes = n
    /\ pc = "for"
    /\ episode = 0
    /\ cur_obs = 0
    /\ next_obs = 0
    /\ ep_done = FALSE
    /\ ep_len = 0
    /\ log = <<>>
    /\ saves = <<>>
    /\ stored = <<>>
    /\ ret = [op |-> "init"]
    /\ raised = "none"
    /\ files = [p \in Paths |-> NoFile]
    /\ disk = "ok"
    /\ Q_other = <<>>

NextLearn ==
    \/ EpisodeReset
    \/ StepAct
    \/ StepStore
    \/ StepReplay
    \/ StepNoReplay
    \/ StepEpsilon
    \/ EpisodeCheckpoint
    \/ EpisodeNoCheckpoint
    \/ LearnFinish

SpecLearn == InitLearn /\ [][NextLearn]_vars

\* learn is sequential code that runs on: a step that can be taken is taken.
SpecLearnFair == SpecLearn /\ WF_vars(NextLearn)

\* The environment steps whose learning test (line 137) has been passed.
Checked == {t \in 1..Len(log) : log[t].checked}

\* C12 as stated: a learning step runs at an environment step iff the buffer
\* size after that step's store is >= the threshold, at most one runs per
\* environment step, and sample is never called on an empty buffer nor with
\* batch_size above the fill.
C12_GatedSampleWithinFill ==
    \A t \in 1..Len(log) :
        /\ log[t].replays <= 1
        /\ ~log[t].checked => log[t].replays = 0
        /\ log[t].checked =>
               (log[t].replays = 1 <=> log[t].size >= LearnThreshold)
        /\ log[t].replays = 1 =>
               (log[t].fill >= 1 /\ batch_size <= log[t].fill)

\* C12 amended: the same, with batch_size within the fill only when
\* batch_size is not above the threshold.
C12_Amended ==
    \A t \in 1..Len(log) :
        /\ log[t].replays <= 1
        /\ ~log[t].checked => log[t].replays = 0
        /\ log[t].checked =>
               (log[t].replays = 1 <=> log[t].size >= LearnThreshold)
        /\ log[t].replays = 1 =>
               /\ log[t].fill >= 1
               /\ log[t].fill = log[t].size
               /\ batch_size <= LearnThreshold => batch_size <= log[t].fill

C12_Witness ==
    /\ batch_size <= LearnThreshold
    /\ \E t \in Checked : log[t].replays = 0 /\ log[t].size = LearnThreshold - 1
    /\ \E t \in Checked : log[t].replays = 1 /\ log[t].fill = LearnThreshold

\* The episodes whose end (lines 143-162) has been passed.
EpisodesEnded == IF pc \in {"for", "returned"} THEN episode ELSE episode - 1

\* C13: the temporary path is written exactly at the end of each episode
\* whose index is a multiple of CheckpointEvery, and the final path exactly
\* once, after all the episodes, when learn returns.
C13_CheckpointSchedule ==
    LET k == EpisodesEnded \div CheckpointEvery
        tmp == [i \in 1..k |-> [path |-> "params.tmp",
                                episode |-> i * CheckpointEvery]]
    IN  /\ saves = IF pc = "returned"
                   THEN Append(tmp, [path |-> "params", episode |-> episodes])
                   ELSE tmp
        /\ pc = "returned" => episode = episodes
        /\ pc # "returned" => files["params"] = NoFile

C13_Witness ==
    /\ pc = "returned"
    /\ episodes >= CheckpointEvery
    /\ Len(saves) = 2
    /\ saves[1].path = "params.tmp"
    /\ saves[2].path = "params"

\* The environment steps of episode k.
StepsOf(k) == {t \in 1..Len(log) : log[t].episode = k}

\* learn has returned, having run exactly `episodes` episodes, each of at
\* least one environment step and ending at its first step with done, and
\* having written the final checkpoint last.
LearnReturned ==
    /\ pc = "returned"
    /\ episode = episodes
    /\ \A t \in 1..Len(log) : log[t].episode \in 1..episodes
    /\ \A t \in 2..Len(log) : log[t].episode >= log[t - 1].episode
    /\ \A k \in 1..episodes :
           /\ StepsOf(k) # {}
           /\ \A t \in StepsOf(k) :
                  log[t].done <=> (\A u \in StepsOf(k) : u <= t)
    /\ Len(saves) >= 1
    /\ saves[Len(saves)].path = "params"
    /\ files["params"].state = "complete"

\* C17: with every episode reaching done, learn(episodes) eventually returns,
\* having run exactly `episodes` episodes and written the final checkpoint;
\* also when episodes = 0.
C17_LearnFinishes == <>LearnReturned

C17_Witness ==
    /\ LearnReturned
    /\ episodes = MaxEpisodes
    /\ Len(log) > episodes

\* C19: the epsilon in force when the action of the t-th environment step
\* (t from 0, across episodes) is selected is schedule[min(t, steps-1)]; the
\* schedule counter is the number of environment steps completed.
C19_EpsilonPerStep ==
    LET n == epsilon_decay_steps IN
    /\ \A t \in 1..Len(log) : log[t].epsilon = schedule[Min(t - 1, n - 1)]
    /\ Len(log) >= 1 => log[1].epsilon = sched_args.start * LinspaceDen(n)
    /\ step = IF pc \in {"step", "learn", "eps"}
              THEN Len(log) - 1 ELSE Len(log)
    /\ epsilon = schedule[Min(step, n - 1)]

C19_Witness ==
    /\ epsilon_decay_steps = 3
    /\ Len(log) = 4
    /\ log[2].episode = 1 /\ log[3].episode = 2
    /\ log[2].epsilon < log[1].epsilon
    /\ log[3].epsilon < log[2].epsilon
    /\ log[4].epsilon = log[3].epsilon

\* C20 as stated: for every memory_size >= 1, from the environment step at
\* which enough transitions have been stored, a learning step runs at every
\* environment step.
C20_LearningStarts ==
    memory_size >= 1 =>
        \A t \in Checked : t >= LearnThreshold => log[t].replays = 1

\* C20 amended: so for memory_size >= the threshold; below it the size stops
\* at memory_size and no learning step ever runs.  The size never decreases.
C20_Amended ==
    /\ \A t \in 1..Len(log) :
           log[t].size = IF log[t].checked \/ pc \in {"learn", "raised"}
                            \/ t < Len(log)
                         THEN Min(t, memory_size)
                         ELSE Min(t - 1, memory_size)
    /\ \A t \in Checked :
           IF memory_size >= LearnThreshold
           THEN log[t].replays = 1 <=> t >= LearnThreshold
           ELSE log[t].replays = 0

C20_Witness ==
    /\ memory_size > LearnThreshold
    /\ LearnThreshold + 1 \in Checked
    /\ log[LearnThreshold].replays = 1
    /\ log[LearnThreshold + 1].replays = 1
    /\ log[LearnThreshold - 1].replays = 0

====
